---- MODULE Spec2Model ----
(***************************************************************************)
(* Model of longhorn-manager's v1.2.2 -> v1.2.3 resource upgrade           *)
(* (src/upgrade/v122to123/upgrade.go), and of the LUKS volume calls of     *)
(* package csi/crypto (src/csi/crypto/crypto.go), modelled further down.   *)
(*                                                                         *)
(* The state is the provided cache (resourceMaps): the Backup, Engine and  *)
(* Volume objects, which the upgrade mutates in place, plus the position   *)
(* of the driver and the locals that live across loop iterations.  A Go    *)
(* `range` over a map visits its keys in an unspecified order: every loop  *)
(* over a map is modelled as a set of keys still to visit, any of which    *)
(* may come next, and every slice filled by such a loop holds its elements *)
(* in an arbitrary order.                                                  *)
(***************************************************************************)
EXTENDS Integers, Sequences, FiniteSets, TLC

\* ------------------------------------------------------------------ bounds

\* Engines are named 1..NumEngines in the stand-alone runs of
\* checkAndUpdateEngineActiveState (SpecActive).
NumEngines == 3

\* How many times in a row the operation under study is run on the same cache.
MaxRuns == 2

\* Engine and backup names of the whole-upgrade runs (Spec).
DriverEngines == {1, 2}

BackupNames == {1, 2}

\* Volume names.  "" is the zero value of a Go string: the volume name of an
\* orphan engine, and the key a missing label reads as.
VolumeNames == {"v1", "v2"}

DriverVolumeNames == {"v1"}

Nodes == {"n1", "n2"}

NodeOrEmpty == Nodes \cup {""}

\* ------------------------------------------------------- program constants

InstanceStateRunning == "running"

InstanceStateStopped == "stopped"

InstanceStates == {InstanceStateRunning, InstanceStateStopped}

\* Marks a Backup whose Labels map has no LonghornLabelBackupVolume key.
NoLabel == "<no label>"

\* The nil *longhorn.Engine.
NilEngine == 0

upgradeLogPrefix == "upgrade from v1.2.2 to v1.2.3: "

\* An error value: the prefix the failing step wrapped it with and what failed
\* underneath ("store": a list against the store, "NotFound": a get of an
\* object the store does not hold).  The nil error has neither.
ErrNil == [prefix |-> "", cause |-> ""]

Kinds == {"backups", "engines", "volumes"}

\* ---------------------------------------------------------------- helpers

\* All orders in which a range over a map may have appended the elements of S.
Orders(S) ==
    {s \in [1..Cardinality(S) -> S] : \A i, j \in 1..Cardinality(S) : s[i] = s[j] => i = j}

Range(s) == {s[i] : i \in DOMAIN s}

\* engineapi.ConvertEngineBackupState: the engine's backup state in the
\* vocabulary of Backup records.
ConvertEngineBackupState(state) ==
    CASE state = "in_progress" -> "InProgress"
      [] state = "complete" -> "Completed"
      [] state = "error" -> "Error"
      [] OTHER -> "Unknown"

\* The backupStatus entry engine e holds for backup b.  The values are opaque
\* to the upgrade; each (e, b) has its own so that a copy shows its origin.
EngineBackupState(e, b) ==
    CASE (e + b) % 3 = 0 -> "in_progress"
      [] (e + b) % 3 = 1 -> "complete"
      [] OTHER -> "error"

BackupStatusEntry(e, b) ==
    [Progress |-> 10 * e + b,
     BackupURL |-> "s3://backupstore",
     Error |-> IF (e + b) % 3 = 2 THEN "failed" ELSE "",
     SnapshotName |-> "snap",
     State |-> EngineBackupState(e, b),
     ReplicaAddress |-> "tcp://replica"]

\* The status of a Backup record the upgrade has not written.
BlankBackupStatus ==
    [Progress |-> 0, URL |-> "", Error |-> "", SnapshotName |-> "",
     State |-> "", ReplicaAddress |-> ""]

VARIABLES
    backups,              \* cache: backup name -> [Label, Status]
    engines,              \* cache: engine name -> Engine
    volumes,              \* volume name -> the store's answer for it, for the names asked so far
    listed,               \* the kinds ListAndUpdate...InProvidedCache has already cached
    entry,                \* the function a run of this behaviour calls
    pc,                   \* where the run stands
    todo,                 \* keys the running range loop has still to visit
    volumeNameToEngines,  \* upgradeBackups' index: label -> engines, in append order
    volumeEngineMap,      \* checkAndUpdateEngineActiveState's index
    err,                  \* the error the run returned, ErrNil while there is none
    run,                  \* which run on this cache this is
    lastErr,              \* the error the run before this one returned, ErrNil for the first run
    engines0,             \* the engines as they were when the current run began
    backups0,             \* the backups as they were when the current run began
    selected,             \* backup name -> the engine upgradeBackups selected for it in this run
    visited,              \* backups the loop of upgradeBackups has visited in this run
    reconciled,           \* volume groups checkAndUpdateEngineActiveState has visited in this run
    dm,                   \* csi/crypto: volume name -> what /dev/mapper/<name> is on the node
    calls                 \* csi/crypto: the calls made so far, each with what it saw and did

\* The state of package csi/crypto, which the upgrade never touches.
cryptoVars == <<dm, calls>>

\* The state of the upgrade, which package csi/crypto never touches.
upgradeVars == <<backups, engines, volumes, listed, entry, pc, todo, volumeNameToEngines,
                 volumeEngineMap, err, run, lastErr, engines0, backups0, selected, visited,
                 reconciled>>

vars == <<upgradeVars, cryptoVars>>

\* ------------------------------------------------------------ the records

\* An engine of the cache.  Longhorn labels an engine with the name of its
\* volume, so the label and Spec.VolumeName agree; an engine without volume
\* has neither.
MakeEngine(e, c) ==
    [Label |-> c.VolumeName,
     VolumeName |-> c.VolumeName,
     NodeID |-> c.NodeID,
     DesireState |-> c.DesireState,
     CurrentState |-> c.CurrentState,
     Active |-> c.Active,
     BackupStatus |-> [b \in c.Keys |-> BackupStatusEntry(e, b)]]

\* The store's answer to a get of a volume: the object, or NotFound.
VolumeAnswers ==
    [Exists : {TRUE}, NodeID : NodeOrEmpty, CurrentNodeID : NodeOrEmpty,
     PendingNodeID : NodeOrEmpty]
    \cup
    [Exists : {FALSE}, NodeID : {""}, CurrentNodeID : {""}, PendingNodeID : {""}]

\* ----------------------------------------------------- the provided cache

\* upgradeutil.ListAndUpdate<Kind>InProvidedCache: the first call for a kind
\* lists it from the store, which may fail; later calls return the cached map.
ListMayFail(kinds) == ~(kinds \subseteq listed)

\* Faulty variant: the engines with an empty key are indexed as well.
IndexesBy_KeepEmpty(keyOf, skipEmpty) ==
    LET keys == {keyOf[e] : e \in DOMAIN engines}
        group(k) == {e \in DOMAIN engines : keyOf[e] = k}
    IN  {g \in [keys -> UNION {Orders(group(k)) : k \in keys}] :
            \A k \in keys : Range(g[k]) = group(k)}

\* The index a range over the engine map builds: key -> the engines with that
\* key, each slice in the order the range happened to take.
IndexesBy(keyOf, skipEmpty) ==
    LET keys == {keyOf[e] : e \in DOMAIN engines} \ (IF skipEmpty THEN {""} ELSE {})
        group(k) == {e \in DOMAIN engines : keyOf[e] = k}
    IN  {g \in [keys -> UNION {Orders(group(k)) : k \in keys}] :
            \A k \in keys : Range(g[k]) = group(k)}

\* Faulty variant: the loop runs on after a match: the last match wins.
FirstMatching_LastWins(s, matching) ==
    IF \E i \in DOMAIN s : s[i] \in matching
    THEN s[CHOOSE i \in DOMAIN s :
                s[i] \in matching /\ \A j \in (i + 1)..Len(s) : s[j] \notin matching]
    ELSE NilEngine

\* A loop over slice s that stops at the first element satisfying its
\* condition (matching: the elements that satisfy it): that element, NilEngine
\* when there is none.
FirstMatching(s, matching) ==
    IF \E i \in DOMAIN s : s[i] \in matching
    THEN s[CHOOSE i \in DOMAIN s :
                s[i] \in matching /\ \A j \in 1..(i - 1) : s[j] \notin matching]
    ELSE NilEngine

\* --------------------------------------------------------- UpgradeResources

\* Faulty variant: UpgradeResources calls upgradeEngines before upgradeBackups.
Program_EnginesFirst(f) ==
    IF f = "UpgradeResources"
    THEN <<"checkAndRemoveEngineBackupStatus", "checkAndUpdateEngineActiveState",
           "upgradeBackups">>
    ELSE <<f>>

\* The steps a call of f runs, in order.  UpgradeResources runs
\* upgradeBackups, then upgradeEngines, which runs
\* checkAndRemoveEngineBackupStatus and then checkAndUpdateEngineActiveState;
\* a step called alone is the whole run.
Program(f) ==
    IF f = "UpgradeResources"
    THEN <<"upgradeBackups", "checkAndRemoveEngineBackupStatus",
           "checkAndUpdateEngineActiveState">>
    ELSE <<f>>

FirstStep(f) == Program(f)[1]

\* Where the run goes when `step` has returned nil.
NextStep(step) ==
    LET steps == Program(entry)
        i == CHOOSE k \in DOMAIN steps : steps[k] = step
    IN  IF i < Len(steps) THEN steps[i + 1] ELSE "done"

\* ---------------------------------------------------------- upgradeBackups

\* e.Labels[types.LonghornLabelVolume] of every engine.
EngineLabel == [e \in DOMAIN engines |-> engines[e].Label]

\* volumeMap[volumeName]: ok.
VolumeInMap(volumeName) == volumeName \in DOMAIN volumes /\ volumes[volumeName].Exists

\* The condition of the loop over the candidate engines.
IsRunningOnCurrentNode(e, v) ==
    /\ engines[e].NodeID = v.CurrentNodeID
    /\ engines[e].DesireState = InstanceStateRunning
    /\ engines[e].CurrentState = InstanceStateRunning

\* volumeNameToEngines[volumeName]: a missing key reads as the empty slice.
CandidateEngines(volumeName) ==
    IF volumeName \in DOMAIN volumeNameToEngines THEN volumeNameToEngines[volumeName] ELSE <<>>

\* The switch on len(engines): whether the backup is skipped (continue) and,
\* when it is not, the engine selected, which may be nil.
SelectEngine(candidates, volumeName) ==
        CASE Len(candidates) = 0 -> [skip |-> TRUE, engine |-> NilEngine]
          [] Len(candidates) = 1 -> [skip |-> FALSE, engine |-> candidates[1]]
          [] OTHER ->
               IF ~VolumeInMap(volumeName)
               THEN [skip |-> TRUE, engine |-> NilEngine]
               ELSE [skip |-> FALSE,
                     engine |-> FirstMatching(candidates,
                                    {e \in Range(candidates) :
                                        IsRunningOnCurrentNode(e, volumes[volumeName])})]

\* Faulty variant: the engine's state is copied as it is, without the conversion.
CopyBackupStatus_RawState(backupStatus) ==
    [Progress |-> backupStatus.Progress,
     URL |-> backupStatus.BackupURL,
     Error |-> backupStatus.Error,
     SnapshotName |-> backupStatus.SnapshotName,
     State |-> backupStatus.State,
     ReplicaAddress |-> backupStatus.ReplicaAddress]

\* The six assignments that copy an engine's backupStatus entry onto a backup.
CopyBackupStatus(backupStatus) ==
    [Progress |-> backupStatus.Progress,
     URL |-> backupStatus.BackupURL,
     Error |-> backupStatus.Error,
     SnapshotName |-> backupStatus.SnapshotName,
     State |-> ConvertEngineBackupState(backupStatus.State),
     ReplicaAddress |-> backupStatus.ReplicaAddress]

\* Faulty variant: the copied status is stored as a backup record of its own.
SetBackupStatus_AsNewRecord(b, status) ==
    ((Cardinality(DOMAIN backups) + 1) :> [backups[b] EXCEPT !.Status = status]) @@ backups

\* The backup map once backup.Status of backup b has been assigned: the
\* record is written through its pointer, in place.
SetBackupStatus(b, status) == [backups EXCEPT ![b].Status = status]

\* Faulty variant: the check of exist is missing.
HasVolumeLabel_Always(b) == TRUE

\* volumeName, exist := backup.Labels[types.LonghornLabelBackupVolume]: a
\* missing key reads as the empty string and exist = false.
HasVolumeLabel(b) == backups[b].Label # NoLabel

BackupVolumeName(b) == IF backups[b].Label = NoLabel THEN "" ELSE backups[b].Label

\* upgradeBackups up to its loop: the three lists and the index.
UpgradeBackupsBegin ==
    /\ pc = "upgradeBackups"
    /\ \E storeFails \in BOOLEAN :
          IF storeFails /\ ListMayFail(Kinds)
          THEN /\ err' = [prefix |-> upgradeLogPrefix \o "upgrade backups failed",
                          cause |-> "store"]
               /\ pc' = "done"
               /\ UNCHANGED <<listed, todo, volumeNameToEngines>>
          ELSE /\ listed' = Kinds
               /\ volumeNameToEngines' \in IndexesBy(EngineLabel, FALSE)
               /\ todo' = DOMAIN backups
               /\ pc' = "upgradeBackups.loop"
               /\ err' = err
    /\ UNCHANGED <<backups, engines, volumes, entry, volumeEngineMap, run, lastErr, cryptoVars, engines0,
                   backups0, selected, visited, reconciled>>

\* One iteration of the loop over backupMap.
UpgradeBackupsStep ==
    /\ pc = "upgradeBackups.loop"
    /\ \E b \in todo :
          LET volumeName == BackupVolumeName(b)
              sel == SelectEngine(CandidateEngines(volumeName), volumeName)
          IN  /\ visited' = visited \cup {b}
              /\ IF ~HasVolumeLabel(b) \/ sel.skip
                 THEN \* continue
                      /\ todo' = todo \ {b}
                      /\ UNCHANGED <<backups, pc, selected>>
                 ELSE IF sel.engine = NilEngine
                 THEN \* engine.Status dereferences the nil pointer: the run panics
                      /\ pc' = "panic"
                      /\ UNCHANGED <<backups, todo, selected>>
                 ELSE /\ selected' = (b :> sel.engine) @@ selected
                      /\ todo' = todo \ {b}
                      /\ pc' = pc
                      /\ IF b \notin DOMAIN engines[sel.engine].BackupStatus
                         THEN backups' = backups
                         ELSE backups' =
                                SetBackupStatus(b,
                                    CopyBackupStatus(engines[sel.engine].BackupStatus[b]))
    /\ UNCHANGED <<engines, volumes, listed, entry, volumeNameToEngines, volumeEngineMap,
                   err, run, lastErr, cryptoVars, engines0, backups0, reconciled>>

\* The loop is over: upgradeBackups returns nil and UpgradeResources goes on.
UpgradeBackupsEnd ==
    /\ pc = "upgradeBackups.loop"
    /\ todo = {}
    /\ pc' = NextStep("upgradeBackups")
    /\ volumeNameToEngines' = <<>>
    /\ UNCHANGED <<backups, engines, volumes, listed, entry, todo, volumeEngineMap, err,
                   run, lastErr, cryptoVars, engines0, backups0, selected, visited, reconciled>>

\* ---------------------------------------------------------- upgradeEngines

\* What upgradeEngines' deferred Wrapf makes of an error of one of its two
\* steps; a stand-alone run of a step returns the error as it is.
WrapEnginesError(cause) ==
    [prefix |-> IF entry = "UpgradeResources"
                THEN upgradeLogPrefix \o "upgrade engines failed" ELSE "",
     cause |-> cause]

\* Faulty variant: an engine without volume keeps its backupStatus.
RemoveBackupStatus_KeepOrphans(e) ==
    IF engines[e].VolumeName = ""
    THEN engines[e]
    ELSE [engines[e] EXCEPT !.BackupStatus = <<>>]

\* Faulty variant: the backupStatus is left on the engines.
RemoveBackupStatus_Keep(e) == engines[e]

\* engine.Status.BackupStatus = nil: engine e with the empty map.
RemoveBackupStatus(e) == [engines[e] EXCEPT !.BackupStatus = <<>>]

\* checkAndRemoveEngineBackupStatus, whole: every engine's BackupStatus
\* becomes nil (the empty map).
CheckAndRemoveEngineBackupStatus ==
    /\ pc = "checkAndRemoveEngineBackupStatus"
    /\ \E storeFails \in BOOLEAN :
          IF storeFails /\ ListMayFail({"engines"})
          THEN /\ err' = WrapEnginesError("store")
               /\ pc' = "done"
               /\ UNCHANGED <<engines, listed>>
          ELSE /\ listed' = listed \cup {"engines"}
               /\ engines' = [e \in DOMAIN engines |-> RemoveBackupStatus(e)]
               /\ pc' = NextStep("checkAndRemoveEngineBackupStatus")
               /\ err' = err
    /\ UNCHANGED <<backups, volumes, entry, todo, volumeNameToEngines, volumeEngineMap,
                   run, lastErr, cryptoVars, engines0, backups0, selected, visited, reconciled>>

\* e.Spec.VolumeName of every engine.
EngineVolumeName == [e \in DOMAIN engines |-> engines[e].VolumeName]

\* checkAndUpdateEngineActiveState up to its loop: the list and the grouping,
\* which leaves out the engines with an empty volume name.
CheckAndUpdateEngineActiveStateBegin ==
    /\ pc = "checkAndUpdateEngineActiveState"
    /\ \E storeFails \in BOOLEAN :
          IF storeFails /\ ListMayFail({"engines"})
          THEN /\ err' = WrapEnginesError("store")
               /\ pc' = "done"
               /\ UNCHANGED <<listed, todo, volumeEngineMap>>
          ELSE /\ listed' = listed \cup {"engines"}
               /\ volumeEngineMap' \in IndexesBy(EngineVolumeName, TRUE)
               /\ todo' = DOMAIN volumeEngineMap'
               /\ pc' = "checkAndUpdateEngineActiveState.loop"
               /\ err' = err
    /\ UNCHANGED <<backups, engines, volumes, entry, volumeNameToEngines, run, lastErr, cryptoVars, engines0,
                   backups0, selected, visited, reconciled>>

\* Faulty variant: the check for an already active engine is missing.
GroupHasActive_Never(engineList) == FALSE

\* Faulty variant: a group counts as settled only with exactly one active engine.
GroupHasActive_ExactlyOne(engineList) ==
    Cardinality({i \in DOMAIN engineList : engines[engineList[i]].Active}) = 1

\* skip: some engine of the group is already active.
GroupHasActive(engineList) == \E i \in DOMAIN engineList : engines[engineList[i]].Active

\* The condition of the loop over engineList: the engine's node is one of the
\* volume's node fields that is not empty.
MatchesVolumeNode(e, v) ==
    \/ (v.NodeID # "" /\ v.NodeID = engines[e].NodeID)
    \/ (v.CurrentNodeID # "" /\ v.CurrentNodeID = engines[e].NodeID)
    \/ (v.PendingNodeID # "" /\ v.PendingNodeID = engines[e].NodeID)

\* Faulty variant: with no match the first engine of the slice is taken.
CurrentEngineOf_DefaultFirst(engineList, v) ==
    LET found == FirstMatching(engineList,
                               {e \in Range(engineList) : MatchesVolumeNode(e, v)})
    IN  IF found = NilEngine THEN engineList[1] ELSE found

\* currentEngine for a group the volume v was fetched for.
CurrentEngineOf(engineList, v) ==
    FirstMatching(engineList, {e \in Range(engineList) : MatchesVolumeNode(e, v)})

\* Faulty variant: every engine of the volume on the node of e is made active.
SetActive_WholeNode(e) ==
    [x \in DOMAIN engines |->
        IF engines[x].VolumeName = engines[e].VolumeName /\ engines[x].NodeID = engines[e].NodeID
        THEN [engines[x] EXCEPT !.Active = TRUE]
        ELSE engines[x]]

\* currentEngine.Spec.Active = true: the engine map with engine e active.
SetActive(e) == [engines EXCEPT ![e].Active = TRUE]

\* upgradeutil.GetVolumeFromProvidedCache: the answers it may give for
\* volumeName.  A name asked before gets the cached answer; otherwise the
\* store answers, with the object or with NotFound.
GetVolumeFromProvidedCache(volumeName) ==
    IF volumeName \in DOMAIN volumes THEN {volumes[volumeName]} ELSE VolumeAnswers

\* One iteration of the loop over volumeEngineMap.
CheckAndUpdateEngineActiveStateStep ==
    /\ pc = "checkAndUpdateEngineActiveState.loop"
    /\ \E volumeName \in todo :
          LET engineList == volumeEngineMap[volumeName]
          IN  IF GroupHasActive(engineList)
              THEN \* continue
                   /\ todo' = todo \ {volumeName}
                   /\ reconciled' = reconciled \cup {volumeName}
                   /\ UNCHANGED <<engines, volumes, pc, err>>
              ELSE IF Len(engineList) = 1
              THEN /\ engines' = SetActive(engineList[1])
                   /\ todo' = todo \ {volumeName}
                   /\ reconciled' = reconciled \cup {volumeName}
                   /\ UNCHANGED <<volumes, pc, err>>
              ELSE \E v \in GetVolumeFromProvidedCache(volumeName) :
                   /\ volumes' = (volumeName :> v) @@ volumes
                   /\ reconciled' = reconciled \cup {volumeName}
                   /\ IF ~v.Exists
                      THEN \* return err
                           /\ err' = WrapEnginesError("NotFound")
                           /\ pc' = "done"
                           /\ UNCHANGED <<engines, todo>>
                      ELSE LET currentEngine == CurrentEngineOf(engineList, v)
                           IN  /\ todo' = todo \ {volumeName}
                               /\ UNCHANGED <<pc, err>>
                               /\ IF currentEngine = NilEngine
                                  THEN \* logged, continue
                                       engines' = engines
                                  ELSE engines' = SetActive(currentEngine)
    /\ UNCHANGED <<backups, listed, entry, volumeNameToEngines, volumeEngineMap, run, lastErr, cryptoVars,
                   engines0, backups0, selected, visited>>

\* The loop is over: checkAndUpdateEngineActiveState returns nil, and so do
\* upgradeEngines and UpgradeResources.
CheckAndUpdateEngineActiveStateEnd ==
    /\ pc = "checkAndUpdateEngineActiveState.loop"
    /\ todo = {}
    /\ pc' = NextStep("checkAndUpdateEngineActiveState")
    /\ volumeEngineMap' = <<>>
    /\ UNCHANGED <<backups, engines, volumes, listed, entry, todo, volumeNameToEngines,
                   err, run, lastErr, cryptoVars, engines0, backups0, selected, visited, reconciled>>

\* --------------------------------------------------------- UpgradeResources

\* The caller runs the entry point again on the cache the last run left.  A
\* run that panicked took the process down with it.
RunAgain ==
    /\ pc = "done"
    /\ run < MaxRuns
    /\ run' = run + 1
    /\ lastErr' = err
    /\ pc' = FirstStep(entry)
    /\ err' = ErrNil
    /\ todo' = {}
    /\ volumeNameToEngines' = <<>>
    /\ volumeEngineMap' = <<>>
    /\ engines0' = engines
    /\ backups0' = backups
    /\ selected' = <<>>
    /\ visited' = {}
    /\ reconciled' = {}
    /\ UNCHANGED <<backups, engines, volumes, listed, entry, cryptoVars>>

\* ------------------------------------------------------------ initial states

\* Spec.Active is new in v1.2.3: no engine carries it before the upgrade.
DriverEngineChoices ==
    [VolumeName : DriverVolumeNames \cup {""}, NodeID : Nodes,
     DesireState : InstanceStates, CurrentState : InstanceStates,
     Active : {FALSE}, Keys : SUBSET BackupNames]

\* In the whole-upgrade runs a volume's spec node and pending node stay
\* empty; SpecActive varies them.
DriverVolumeAnswers ==
    {v \in VolumeAnswers : v.NodeID = "" /\ v.PendingNodeID = ""}

ActiveEngineChoices ==
    [VolumeName : VolumeNames \cup {""}, NodeID : NodeOrEmpty,
     DesireState : {InstanceStateRunning}, CurrentState : {InstanceStateRunning},
     Active : BOOLEAN, Keys : {{}}]

InitRun(f) ==
    /\ entry = f
    /\ pc = FirstStep(f)
    /\ todo = {}
    /\ volumeNameToEngines = <<>>
    /\ volumeEngineMap = <<>>
    /\ err = ErrNil
    /\ dm = <<>>
    /\ calls = <<>>
    /\ run = 1
    /\ lastErr = ErrNil
    /\ engines0 = engines
    /\ backups0 = backups
    /\ selected = <<>>
    /\ visited = {}
    /\ reconciled = {}

\* A cache with the store's backups, engines and volumes, before
\* UpgradeResources.
Init ==
    /\ \E c \in [DriverEngines -> DriverEngineChoices] :
          engines = [e \in DriverEngines |-> MakeEngine(e, c[e])]
    /\ volumes \in [DriverVolumeNames -> DriverVolumeAnswers]
    /\ backups \in [BackupNames -> [Label : DriverVolumeNames \cup {NoLabel},
                                    Status : {BlankBackupStatus}]]
    /\ listed = {}
    /\ InitRun("UpgradeResources")

Next ==
    \/ UpgradeBackupsBegin
    \/ UpgradeBackupsStep
    \/ UpgradeBackupsEnd
    \/ CheckAndRemoveEngineBackupStatus
    \/ CheckAndUpdateEngineActiveStateBegin
    \/ CheckAndUpdateEngineActiveStateStep
    \/ CheckAndUpdateEngineActiveStateEnd
    \/ RunAgain

Spec == Init /\ [][Next]_vars

\* A place for each choice in a fixed total order of ActiveEngineChoices.
ChoiceRank(c) ==
    LET place(x, s) == CHOOSE i \in DOMAIN s : s[i] = x
    IN  place(c.VolumeName, <<"", "v1", "v2">>) * 6
        + place(c.NodeID, <<"", "n1", "n2">>) * 2
        + (IF c.Active THEN 1 ELSE 0)

\* A cache with engines only, before checkAndUpdateEngineActiveState alone;
\* the volumes are fetched from the store as the step asks for them.  The
\* code reads an engine's name nowhere and ranges over the engines in any
\* order, so one naming stands for every multiset of engines: the one that
\* names them in ascending rank.
InitActive ==
    /\ \E c \in [1..NumEngines -> ActiveEngineChoices] :
          /\ \A i, j \in 1..NumEngines : i < j => ChoiceRank(c[i]) <= ChoiceRank(c[j])
          /\ engines = [e \in 1..NumEngines |-> MakeEngine(e, c[e])]
    /\ volumes = <<>>
    /\ backups = <<>>
    /\ listed = {"engines"}
    /\ InitRun("checkAndUpdateEngineActiveState")

NextActive ==
    \/ CheckAndUpdateEngineActiveStateBegin
    \/ CheckAndUpdateEngineActiveStateStep
    \/ CheckAndUpdateEngineActiveStateEnd
    \/ RunAgain

SpecActive == InitActive /\ [][NextActive]_vars

\* ======================================================================
\* Package csi/crypto (src/csi/crypto/crypto.go)
\* ======================================================================

\* How many calls of the package a behaviour makes.
MaxCalls == 3

\* The volumes the calls are made for.  A name is one path element; "" is
\* the zero value of a Go string.
CryptoVolumes == {"", "pvc-1", "pvc-2"}

\* The names a mapping can exist under.
MappedNames == CryptoVolumes \ {""}

\* "/dev/mapper", a path being the sequence of its elements.
mapperFilePathPrefix == <<"dev", "mapper">>

\* path.Join(mapperFilePathPrefix, volume): an empty element is dropped.
VolumeMapper(volume) ==
    IF volume = "" THEN mapperFilePathPrefix ELSE Append(mapperFilePathPrefix, volume)

\* strings.HasPrefix(devicePath, mapperFilePathPrefix).
HasMapperPrefix(devicePath) ==
    /\ Len(devicePath) >= Len(mapperFilePathPrefix)
    /\ SubSeq(devicePath, 1, Len(mapperFilePathPrefix)) = mapperFilePathPrefix

\* strings.TrimPrefix(devicePath, mapperFilePathPrefix+"/"): the element after
\* the prefix; a path that is the prefix alone has no "/" after it and stays
\* as it is.
TrimMapperPrefix(devicePath) ==
    IF Len(devicePath) > Len(mapperFilePathPrefix)
    THEN devicePath[Len(mapperFilePathPrefix) + 1]
    ELSE "/dev/mapper"

\* A line of output is the sequence of its pieces: words, " " and ":".

\* strings.Contains(line, piece).
Contains(line, piece) == \E i \in DOMAIN line : line[i] = piece

\* Faulty variant: the line is taken as it is.
TrimSpace_Missing(line) == line

\* strings.TrimSpace(line).
TrimSpace(line) ==
    LET inked == {i \in DOMAIN line : line[i] # " "}
    IN  IF inked = {}
        THEN <<>>
        ELSE SubSeq(line, CHOOSE i \in inked : \A j \in inked : i <= j,
                          CHOOSE i \in inked : \A j \in inked : i >= j)

\* strings.SplitN(line, ":", 2): the line when it has no ":", else what is
\* before the first ":" and what is after it.
SplitN2(line) ==
    IF ~Contains(line, ":")
    THEN <<line>>
    ELSE LET i == CHOOSE k \in DOMAIN line : line[k] = ":" /\ \A j \in 1..(k - 1) : line[j] # ":"
         IN  <<SubSeq(line, 1, i - 1), SubSeq(line, i + 1, Len(line))>>

\* strings.Split(stdout, "\n"), the output being the sequence of its lines:
\* the empty output splits into one empty line.
SplitLines(stdout) == IF stdout = <<>> THEN << <<>> >> ELSE stdout

\* DeviceEncryptionStatus(devicePath), `status` being what luksStatus answers
\* for the name taken from the path: the mapped device, the mapper name and
\* the error, or a panic where kv[1] is read of a "device" line without ":".
\* (len(lines) < 1 and len(kv) < 1 cannot be: Split and SplitN return at
\* least one element.)
DeviceEncryptionStatus(devicePath, status) ==
    LET notLuks == [mappedDevice |-> devicePath, mapper |-> "", err |-> "", panic |-> FALSE]
        volume == TrimMapperPrefix(devicePath)
        lines == SplitLines(status.stdout)
        kv(i) == SplitN2(TrimSpace(lines[i]))
        deviceLines == {i \in 2..Len(lines) : kv(i)[1] = <<"device">>}
    IN  IF ~HasMapperPrefix(devicePath) THEN notLuks
        ELSE IF status.err THEN notLuks
        ELSE IF ~Contains(lines[1], " is active") THEN notLuks
        ELSE IF deviceLines = {}
        THEN [mappedDevice |-> <<>>, mapper |-> "",
              err |-> "mapped device not found in path", panic |-> FALSE]
        ELSE LET i == CHOOSE k \in deviceLines : \A j \in deviceLines : k <= j
             IN  IF Len(kv(i)) < 2
                 THEN [mappedDevice |-> <<>>, mapper |-> "", err |-> "", panic |-> TRUE]
                 ELSE [mappedDevice |-> TrimSpace(kv(i)[2]), mapper |-> volume,
                       err |-> "", panic |-> FALSE]

\* IsDeviceOpen(device): mappedFile != "", and the error.
IsDeviceOpen(device, status) ==
    LET s == DeviceEncryptionStatus(device, status)
    IN  [isOpen |-> s.mapper # "", err |-> s.err, panic |-> s.panic]

\* --------------------------------------------- cryptsetup, as the calls see it

\* What /dev/mapper/<name> is: no mapping, an active LUKS mapping, or an
\* active mapping that is not a LUKS one.
MappingStates == {"inactive", "luks", "other"}

MappingState(name) == IF name \in DOMAIN dm THEN dm[name] ELSE "inactive"

\* What `cryptsetup status` prints for name, line by line.
StatusOutput(name) ==
    CASE MappingState(name) = "luks" ->
            << <<"/dev/mapper/", name, " is active", ".">>,
               <<" ", " ", "type", ":", " ", "LUKS2">>,
               <<" ", " ", "device", ":", " ", "/dev/longhorn/", name>>,
               <<" ", " ", "mode", ":", " ", "read/write">>,
               <<>> >>
      [] MappingState(name) = "other" ->
            << <<"/dev/mapper/", name, " is active", " and is in use", ".">>,
               <<" ", " ", "type", ":", " ", "n/a">>,
               <<>> >>
      [] OTHER ->
            << <<"/dev/mapper/", name, " is inactive", ".">>, <<>> >>

\* luksStatus(volume): the output of `cryptsetup status`, which exits with an
\* error for a name that has no active mapping.
luksStatus(volume) ==
    {[stdout |-> StatusOutput(volume), err |-> MappingState(volume) = "inactive"]}

\* luksOpen(volume, devicePath, passphrase): the mapping is set up, or the
\* command fails (wrong passphrase, not a LUKS device) and nothing changes; it
\* fails when the name is taken or is no name.
luksOpen(volume) ==
    {[dm |-> dm, err |-> "luksOpen failed"]}
    \cup (IF volume \in DOMAIN dm /\ dm[volume] = "inactive"
          THEN {[dm |-> [dm EXCEPT ![volume] = "luks"], err |-> ""]}
          ELSE {})

\* luksClose(volume): the mapping is removed, or the command fails (device
\* busy) and nothing changes; it fails when there is no mapping.
luksClose(volume) ==
    {[dm |-> dm, err |-> "luksClose failed"]}
    \cup (IF volume \in DOMAIN dm /\ dm[volume] # "inactive"
          THEN {[dm |-> [dm EXCEPT ![volume] = "inactive"], err |-> ""]}
          ELSE {})

\* luksResize(volume, passphrase): the mapping stays what it is; the command
\* succeeds only on an active LUKS mapping.
luksResize(volume) ==
    {[dm |-> dm, err |-> "luksResize failed"]}
    \cup (IF MappingState(volume) = "luks" THEN {[dm |-> dm, err |-> ""]} ELSE {})

\* ------------------------------------------------------------- the calls

\* The record of a call: the function, its volume, what the mapping was when
\* it was called and what it is after, what IsDeviceOpen answered if it was
\* asked, the cryptsetup command the call invoked ("" for none), the error
\* it returned ("" for nil) and whether it panicked instead of returning.
CallRecord(op, volume, open, invoked, done) ==
    [op |-> op, volume |-> volume, before |-> MappingState(volume),
     after |-> IF volume \in DOMAIN done.dm THEN done.dm[volume] ELSE "inactive",
     isOpen |-> open.isOpen, statusErr |-> open.err,
     invoked |-> invoked, err |-> done.err, panic |-> open.panic]

\* A call that returns error without a cryptsetup command that changes a
\* mapping.
Returns(error) == [dm |-> dm, err |-> error]

\* CloseVolume does not ask IsDeviceOpen.
NotAsked == [isOpen |-> FALSE, err |-> "", panic |-> FALSE]

\* A call can be made: the bound is not reached and no call has panicked.
CanCall ==
    /\ Len(calls) < MaxCalls
    /\ \A i \in DOMAIN calls : ~calls[i].panic

OpenVolume ==
    /\ CanCall
    /\ \E volume \in CryptoVolumes :
       \E status \in luksStatus(TrimMapperPrefix(VolumeMapper(volume))) :
          LET open == IsDeviceOpen(VolumeMapper(volume), status)
          IN  IF open.panic \/ open.isOpen
              THEN \* "already opened": return nil (a panic ends the call as well)
                   /\ calls' = Append(calls, CallRecord("OpenVolume", volume, open, "",
                                                        Returns("")))
                   /\ dm' = dm
              ELSE \E done \in luksOpen(volume) :
                   /\ calls' = Append(calls, CallRecord("OpenVolume", volume, open,
                                                        "luksOpen", done))
                   /\ dm' = done.dm
    /\ UNCHANGED upgradeVars

CloseVolume ==
    /\ CanCall
    /\ \E volume \in CryptoVolumes : \E done \in luksClose(volume) :
          /\ calls' = Append(calls, CallRecord("CloseVolume", volume, NotAsked,
                                               "luksClose", done))
          /\ dm' = done.dm
    /\ UNCHANGED upgradeVars

\* Faulty variant: only the error of the status check stops the resize.
ResizeRefusal_ErrorOnly(open) == open.err

\* The error ResizeEncryptoDevice returns before it resizes, "" when it goes
\* on to luksResize.
ResizeRefusal(open) ==
    IF open.err # "" THEN open.err
    ELSE IF ~open.isOpen THEN "encrypto device is closed for resizing"
    ELSE ""

ResizeEncryptoDevice ==
    /\ CanCall
    /\ \E volume \in CryptoVolumes :
       \E status \in luksStatus(TrimMapperPrefix(VolumeMapper(volume))) :
          LET open == IsDeviceOpen(VolumeMapper(volume), status)
          IN  IF open.panic \/ ResizeRefusal(open) # ""
              THEN /\ calls' = Append(calls, CallRecord("ResizeEncryptoDevice", volume, open,
                                                        "", Returns(ResizeRefusal(open))))
                   /\ dm' = dm
              ELSE \E done \in luksResize(volume) :
                   /\ calls' = Append(calls, CallRecord("ResizeEncryptoDevice", volume, open,
                                                        "luksResize", done))
                   /\ dm' = done.dm
    /\ UNCHANGED upgradeVars

\* A node where each name is in any of the mapping states, before any call;
\* no upgrade runs.
InitCrypto ==
    /\ dm \in [MappedNames -> MappingStates]
    /\ calls = <<>>
    /\ backups = <<>>
    /\ engines = <<>>
    /\ volumes = <<>>
    /\ listed = {}
    /\ entry = ""
    /\ pc = ""
    /\ todo = {}
    /\ volumeNameToEngines = <<>>
    /\ volumeEngineMap = <<>>
    /\ err = ErrNil
    /\ run = 1
    /\ lastErr = ErrNil
    /\ engines0 = <<>>
    /\ backups0 = <<>>
    /\ selected = <<>>
    /\ visited = {}
    /\ reconciled = {}

NextCrypto ==
    \/ OpenVolume
    \/ CloseVolume
    \/ ResizeEncryptoDevice

SpecCrypto == InitCrypto /\ [][NextCrypto]_vars

\* ======================================================================
\* Properties of checkAndUpdateEngineActiveState, checked under SpecActive
\* ======================================================================

\* The engines of volume volumeName (the engines' volume names never change).
GroupOf(volumeName) == {e \in DOMAIN engines : engines[e].VolumeName = volumeName}

\* The volumes that have at least one engine.
GroupKeys == {engines[e].VolumeName : e \in DOMAIN engines} \ {""}

\* The engines of the volume that are active in the engine map es.
ActiveIn(es, volumeName) == {e \in GroupOf(volumeName) : es[e].Active}

\* The node fields of volume v that are not empty.
NodeFields(v) == {v.NodeID, v.CurrentNodeID, v.PendingNodeID} \ {""}

\* The run returned nil.
CompletedWithoutError == pc = "done" /\ err = ErrNil

\* A single match is resolvable for the group of volumeName, v being the
\* store's volume of that name.
Resolvable(volumeName, v) ==
    \/ Cardinality(GroupOf(volumeName)) = 1
    \/ v.Exists /\ \E e \in GroupOf(volumeName) : engines[e].NodeID \in NodeFields(v)

\* The group of volumeName had two or more engines, none active, when the
\* run began, the loop has visited it, and its volume was there.
UndecidedGroupVisited(volumeName) ==
    /\ volumeName \in reconciled
    /\ Cardinality(GroupOf(volumeName)) >= 2
    /\ ActiveIn(engines0, volumeName) = {}
    /\ volumeName \in DOMAIN volumes
    /\ volumes[volumeName].Exists

\* C1 as stated: after a run without error every volume with a resolvable
\* single match has exactly one active engine, whatever its volume record is.
C1_ExactlyOneActive ==
    CompletedWithoutError =>
        \A volumeName \in GroupKeys :
            \A v \in GetVolumeFromProvidedCache(volumeName) :
                Resolvable(volumeName, v) =>
                    Cardinality(ActiveIn(engines, volumeName)) = 1

\* C1 as amended: after a run without error every volume with a resolvable
\* single match has at least one active engine, and exactly one unless more
\* than one of its engines was active before the run.
C1_AtLeastOneActive ==
    CompletedWithoutError =>
        \A volumeName \in GroupKeys :
            \A v \in GetVolumeFromProvidedCache(volumeName) :
                Resolvable(volumeName, v) =>
                    /\ Cardinality(ActiveIn(engines, volumeName)) >= 1
                    /\ Cardinality(ActiveIn(engines0, volumeName)) <= 1
                          => Cardinality(ActiveIn(engines, volumeName)) = 1

C1_Witness ==
    /\ CompletedWithoutError
    /\ run = 1
    /\ \E volumeName \in GroupKeys :
          /\ UndecidedGroupVisited(volumeName)
          /\ Resolvable(volumeName, volumes[volumeName])
          /\ Cardinality(ActiveIn(engines, volumeName)) = 1

\* C3: a group of two or more engines, none active, whose volume the store
\* does not hold is skipped: no error, the group unchanged, the loop goes on.
C3_AbsentVolumeSkipped ==
    \A volumeName \in reconciled :
        ( /\ Cardinality(GroupOf(volumeName)) >= 2
          /\ ActiveIn(engines0, volumeName) = {}
          /\ volumeName \in DOMAIN volumes
          /\ ~volumes[volumeName].Exists )
        => /\ err = ErrNil
           /\ pc # "done" \/ todo = {}
           /\ ActiveIn(engines, volumeName) = {}

\* C4 as stated: when some engine of an undecided group is on the volume's
\* current node, an engine on the current node is the one made active.
C4_CurrentNodeWins ==
    \A volumeName \in reconciled :
        ( /\ UndecidedGroupVisited(volumeName)
          /\ volumes[volumeName].CurrentNodeID # ""
          /\ \E e \in GroupOf(volumeName) :
                engines[e].NodeID = volumes[volumeName].CurrentNodeID )
        => \E e \in ActiveIn(engines, volumeName) :
                engines[e].NodeID = volumes[volumeName].CurrentNodeID

\* C4 as amended: the engine made active in an undecided group is the first
\* engine of the group's slice whose node is any non-empty node field of the
\* volume (spec node, current node or pending node), and none when no engine
\* is on such a node.
C4_FirstMatchWins ==
    \A volumeName \in reconciled :
        (pc = "checkAndUpdateEngineActiveState.loop" /\ UndecidedGroupVisited(volumeName))
        => LET engineList == volumeEngineMap[volumeName]
               onNode(i) == engines[engineList[i]].NodeID \in NodeFields(volumes[volumeName])
           IN  IF \E i \in DOMAIN engineList : onNode(i)
               THEN \E i \in DOMAIN engineList :
                       /\ onNode(i)
                       /\ \A j \in 1..(i - 1) : ~onNode(j)
                       /\ ActiveIn(engines, volumeName) = {engineList[i]}
               ELSE ActiveIn(engines, volumeName) = {}

\* An engine on the pending node came first in the slice and was made active
\* although another engine is on the current node.
C4_Witness ==
    /\ pc = "checkAndUpdateEngineActiveState.loop"
    /\ \E volumeName \in reconciled :
          /\ UndecidedGroupVisited(volumeName)
          /\ volumes[volumeName].CurrentNodeID # ""
          /\ volumes[volumeName].PendingNodeID # ""
          /\ \E e1, e2 \in GroupOf(volumeName) :
                /\ engines[e1].NodeID = volumes[volumeName].CurrentNodeID
                /\ engines[e2].NodeID = volumes[volumeName].PendingNodeID
                /\ engines[e1].NodeID # engines[e2].NodeID
                /\ ActiveIn(engines, volumeName) = {e2}

\* C6: a second run in a row changes no engine's active flag.
C6_SecondRunChangesNothing ==
    [][run >= 2 => \A e \in DOMAIN engines : engines'[e].Active = engines[e].Active]_vars

C11_ActiveGroupLeftUnchanged ==
    [][\A volumeName \in reconciled' \ reconciled :
          ActiveIn(engines, volumeName) # {} =>
              /\ engines' = engines
              /\ volumes' = volumes
              /\ err' = err
              /\ todo' = todo \ {volumeName}]_vars

\* A group of several engines, more than one active, was visited: its
\* engines are as they were and its volume was not asked for.
C11_Witness ==
    /\ pc = "checkAndUpdateEngineActiveState.loop"
    /\ run = 1
    /\ \E volumeName \in reconciled :
          /\ Cardinality(ActiveIn(engines0, volumeName)) >= 2
          /\ \A e \in GroupOf(volumeName) : engines[e] = engines0[e]
          /\ volumeName \notin DOMAIN volumes

\* The engines without volume.
Orphans == {e \in DOMAIN engines : engines[e].VolumeName = ""}

\* C14: an engine with an empty volume name is as it was when the run
\* began, its active flag included, and it is in no group of the index: no
\* group is keyed by the empty name and every group holds exactly the
\* engines of its volume.
C14_OrphanUntouched ==
    /\ \A e \in Orphans : engines[e] = engines0[e]
    /\ "" \notin DOMAIN volumeEngineMap
    /\ \A volumeName \in DOMAIN volumeEngineMap :
          /\ Range(volumeEngineMap[volumeName]) = GroupOf(volumeName)
          /\ Len(volumeEngineMap[volumeName]) = Cardinality(GroupOf(volumeName))

\* The run returned nil with an engine of a volume made active while two
\* engines without volume, none active, stayed as they were.
C14_Witness ==
    /\ CompletedWithoutError
    /\ run = 1
    /\ \E e1, e2 \in Orphans : e1 # e2 /\ ~engines[e1].Active /\ ~engines[e2].Active
    /\ \E e \in DOMAIN engines : ~engines0[e].Active /\ engines[e].Active

\* The engines of the volume the current run has made active.
Raised(volumeName) ==
    {e \in GroupOf(volumeName) : ~engines0[e].Active /\ engines[e].Active}

\* C16: in a run of checkAndUpdateEngineActiveState an engine that was
\* active stays active, at most one engine of every volume group goes from
\* not active to active, every field of every engine other than active is as
\* it was, no backup changes, and no step changes a volume record it has got.
C16_OnlyRaisesOnePerGroup ==
    /\ [](/\ \A e \in DOMAIN engines :
                /\ engines0[e].Active => engines[e].Active
                /\ [engines[e] EXCEPT !.Active = engines0[e].Active] = engines0[e]
          /\ \A volumeName \in GroupKeys : Cardinality(Raised(volumeName)) <= 1
          /\ Raised("") = {}
          /\ backups = backups0)
    /\ [][\A volumeName \in DOMAIN volumes :
              volumeName \in DOMAIN volumes' /\ volumes'[volumeName] = volumes[volumeName]]_vars

\* The run returned nil: in a group of two engines on the same node, which
\* is a node of their volume, one was made active and the other was not,
\* while an engine that was active before still is.
C16_Witness ==
    /\ CompletedWithoutError
    /\ run = 1
    /\ \E volumeName \in GroupKeys : \E e1, e2 \in GroupOf(volumeName) :
          /\ e1 # e2
          /\ volumeName \in DOMAIN volumes
          /\ engines[e1].NodeID = engines[e2].NodeID
          /\ engines[e1].NodeID \in NodeFields(volumes[volumeName])
          /\ Raised(volumeName) = {e1}
          /\ ~engines[e2].Active
    /\ \E e \in DOMAIN engines : engines0[e].Active /\ engines[e].Active

\* ======================================================================
\* Properties of UpgradeResources, checked under Spec
\* ======================================================================

\* The engines that carry the volume label volumeName (labels never change).
LabelGroup(volumeName) == {e \in DOMAIN engines : engines[e].Label = volumeName}

\* The engines of the label group that are on the volume's current node with
\* desired state and current state running.
RunningOnCurrentNode(volumeName) ==
    {e \in LabelGroup(volumeName) :
        /\ engines[e].NodeID = volumes[volumeName].CurrentNodeID
        /\ engines[e].DesireState = "running"
        /\ engines[e].CurrentState = "running"}

\* The volume record of volumeName is in the store.
VolumeExists(volumeName) == volumeName \in DOMAIN volumes /\ volumes[volumeName].Exists

\* What a backup shows once the backupStatus entry `e` was copied onto it.
EntryOnBackup(e) ==
    [Progress |-> e.Progress, URL |-> e.BackupURL, Error |-> e.Error,
     SnapshotName |-> e.SnapshotName, State |-> ConvertEngineBackupState(e.State),
     ReplicaAddress |-> e.ReplicaAddress]

\* C2: a backup whose volume has two or more candidate engines, none of them
\* running on the volume's current node, is left untouched, and the step
\* neither crashes nor fails on it.
C2_NoMatchIsSkipped ==
    \A b \in visited :
        ( /\ backups[b].Label # NoLabel
          /\ Cardinality(LabelGroup(backups[b].Label)) >= 2
          /\ VolumeExists(backups[b].Label)
          /\ RunningOnCurrentNode(backups[b].Label) = {} )
        => /\ pc # "panic"
           /\ err = ErrNil
           /\ backups[b] = backups0[b]

\* The slice a range in ascending name order builds of the set S.
Ascending(S) == CHOOSE s \in Orders(S) : \A i, j \in DOMAIN s : i < j => s[i] < s[j]

\* The status of backup b after upgradeBackups when every range runs in
\* ascending name order.
RefBackupStatus(b) ==
    LET volumeName == BackupVolumeName(b)
        sel == SelectEngine(Ascending(LabelGroup(volumeName)), volumeName)
    IN  IF \/ ~HasVolumeLabel(b)
           \/ sel.skip
           \/ sel.engine = NilEngine
           \/ b \notin DOMAIN engines0[sel.engine].BackupStatus
        THEN backups0[b].Status
        ELSE CopyBackupStatus(engines0[sel.engine].BackupStatus[b])

\* The active flag of engine e after checkAndUpdateEngineActiveState when
\* every range runs in ascending name order.
RefActive(e) ==
    LET volumeName == engines[e].VolumeName
        engineList == Ascending(GroupOf(volumeName))
    IN  IF \/ volumeName = ""
           \/ ActiveIn(engines0, volumeName) # {}
           \/ (Len(engineList) > 1 /\ ~VolumeExists(volumeName))
        THEN engines0[e].Active
        ELSE IF Len(engineList) = 1
        THEN TRUE
        ELSE e = CurrentEngineOf(engineList, volumes[volumeName])

\* C5: the state a run of UpgradeResources ends in is the one it ends in
\* when every range runs in ascending name order: the order of iteration
\* does not show in the result.
C5_OrderIndependent ==
    (CompletedWithoutError /\ entry = "UpgradeResources") =>
        /\ \A b \in DOMAIN backups : backups[b].Status = RefBackupStatus(b)
        /\ \A e \in DOMAIN engines : engines[e].Active = RefActive(e)

\* Engine e is the one engine upgradeBackups can select for backup b: the
\* only candidate, or among several the only one running on the current node
\* of the volume.
UniquelySelected(b, e) ==
    LET volumeName == backups[b].Label
    IN  /\ volumeName # NoLabel
        /\ \/ LabelGroup(volumeName) = {e}
           \/ /\ Cardinality(LabelGroup(volumeName)) >= 2
              /\ VolumeExists(volumeName)
              /\ RunningOnCurrentNode(volumeName) = {e}

\* C8: after a run of UpgradeResources without error, every backup whose
\* volume has a uniquely selected engine that held a backupStatus entry for
\* it before the run carries that entry's values (the state in the backup
\* vocabulary), and the engines' backupStatus is cleared only then.
C8_StatusCopiedBeforeCleared ==
    (CompletedWithoutError /\ entry = "UpgradeResources") =>
        /\ \A b \in DOMAIN backups : \A e \in DOMAIN engines :
              (UniquelySelected(b, e) /\ b \in DOMAIN engines0[e].BackupStatus)
              => backups[b].Status = EntryOnBackup(engines0[e].BackupStatus[b])
        /\ \A e \in DOMAIN engines : engines[e].BackupStatus = <<>>

C8_Witness ==
    /\ CompletedWithoutError
    /\ entry = "UpgradeResources"
    /\ run = 1
    /\ \E b \in DOMAIN backups : \E e \in DOMAIN engines :
          /\ UniquelySelected(b, e)
          /\ Cardinality(LabelGroup(backups[b].Label)) >= 2
          /\ b \in DOMAIN engines0[e].BackupStatus
          /\ backups[b].Status = EntryOnBackup(engines0[e].BackupStatus[b])
          /\ backups[b].Status # backups0[b].Status
          /\ engines[e].BackupStatus = <<>>

\* C9: a backup is modified exactly when upgradeBackups selected an engine
\* for its volume and that engine holds a backupStatus entry under the
\* backup's name; the backup then shows the entry's progress, url, error,
\* snapshot name and replica address and the entry's state in the backup
\* vocabulary; in every other case it is as it was.
C9_CopiedIffSelectedWithEntry ==
    \A b \in DOMAIN backups :
        /\ b \in DOMAIN selected =>
              /\ b \in visited
              /\ selected[b] \in LabelGroup(backups[b].Label)
              /\ \/ LabelGroup(backups[b].Label) = {selected[b]}
                 \/ selected[b] \in RunningOnCurrentNode(backups[b].Label)
        /\ IF b \in DOMAIN selected /\ b \in DOMAIN engines0[selected[b]].BackupStatus
           THEN /\ backups[b].Status = EntryOnBackup(engines0[selected[b]].BackupStatus[b])
                /\ backups[b].Status # backups0[b].Status
                /\ backups[b].Label = backups0[b].Label
           ELSE backups[b] = backups0[b]

C9_Witness ==
    /\ pc = "upgradeBackups.loop"
    /\ todo = {}
    /\ \E b1, b2 \in visited :
          /\ b1 \in DOMAIN selected
          /\ b1 \in DOMAIN engines0[selected[b1]].BackupStatus
          /\ backups[b1].Status = EntryOnBackup(engines0[selected[b1]].BackupStatus[b1])
          /\ b2 \in DOMAIN selected
          /\ b2 \notin DOMAIN engines0[selected[b2]].BackupStatus
          /\ backups[b2] = backups0[b2]

\* C10: a backup without the volume label is never changed, whatever the
\* engines hold under its name.
C10_UnlabelledBackupUntouched ==
    \A b \in DOMAIN backups :
        backups[b].Label = NoLabel =>
            /\ backups[b] = backups0[b]
            /\ backups[b].Status = BlankBackupStatus
            /\ b \notin DOMAIN selected

\* An unlabelled backup was visited while an engine without volume label held
\* an entry under its name, and another backup was written.
C10_Witness ==
    /\ pc = "upgradeBackups.loop"
    /\ \E b \in visited : \E e \in DOMAIN engines :
          /\ backups[b].Label = NoLabel
          /\ engines[e].Label = ""
          /\ b \in DOMAIN engines[e].BackupStatus
    /\ \E b \in visited : backups[b].Status # BlankBackupStatus

\* C12: when checkAndRemoveEngineBackupStatus returns nil, every engine of
\* the cache has an empty backupStatus, every other field of every engine is
\* as it was, and so is every backup and every volume.
C12_BackupStatusClearedOnly ==
    [][(pc = "checkAndRemoveEngineBackupStatus" /\ err' = ErrNil) =>
          /\ DOMAIN engines' = DOMAIN engines
          /\ \A e \in DOMAIN engines :
                /\ engines'[e].BackupStatus = <<>>
                /\ [engines'[e] EXCEPT !.BackupStatus = engines[e].BackupStatus] = engines[e]
          /\ backups' = backups
          /\ volumes' = volumes]_vars

\* The step has returned: an engine without volume that held entries has
\* none left, and so has an engine whose entry for a backup was copied onto
\* no backup.
C12_Witness ==
    /\ pc = "checkAndUpdateEngineActiveState"
    /\ run = 1
    /\ \E e \in DOMAIN engines :
          /\ engines[e].VolumeName = ""
          /\ engines0[e].BackupStatus # <<>>
          /\ engines[e].BackupStatus = <<>>
    /\ \E e \in DOMAIN engines : \E b \in DOMAIN engines0[e].BackupStatus :
          /\ engines[e].VolumeName # ""
          /\ backups[b].Status = BlankBackupStatus
          /\ engines[e].BackupStatus = <<>>

\* C13: no step of the upgrade creates or deletes a record: whatever step is
\* taken, the names of the backups and the names of the engines in the cache
\* after it are the names before it.
C13_NoRecordCreatedOrDeleted ==
    [][/\ DOMAIN backups' = DOMAIN backups
       /\ DOMAIN engines' = DOMAIN engines]_vars

\* All three steps have acted (a backup was written, the backupStatus of an
\* engine was cleared, an engine was made active) and the records are those
\* the run began with.
C13_Witness ==
    /\ CompletedWithoutError
    /\ entry = "UpgradeResources"
    /\ run = 1
    /\ \E b \in DOMAIN backups : backups[b].Status # backups0[b].Status
    /\ \E e \in DOMAIN engines : engines0[e].BackupStatus # <<>> /\ engines[e].BackupStatus = <<>>
    /\ \E e \in DOMAIN engines : ~engines0[e].Active /\ engines[e].Active
    /\ DOMAIN backups = DOMAIN backups0
    /\ DOMAIN engines = DOMAIN engines0

\* The run returned the error of a store access that failed in upgradeBackups.
BackupsStepFailed ==
    /\ pc = "done"
    /\ err.prefix = upgradeLogPrefix \o "upgrade backups failed"
    /\ err.cause = "store"

\* The run returned the error of a store access that failed in upgradeEngines.
EnginesStepFailed ==
    /\ pc = "done"
    /\ err.prefix = upgradeLogPrefix \o "upgrade engines failed"
    /\ err.cause \in {"store", "NotFound"}

\* C15: a run of UpgradeResources ends in one of two ways only: it returns
\* the error of a failed list or get, wrapped with the prefix of the step
\* that failed, and no later step has run (after a failure in the backups
\* step no backup and no engine has changed; after a failure in the engines
\* step the loop stopped at the group whose volume could not be got), or no
\* store access failed and it returns nil.  It never ends otherwise.
C15_OnlyStoreFailuresAbort ==
    /\ pc # "panic"
    /\ err # ErrNil => BackupsStepFailed \/ EnginesStepFailed
    /\ BackupsStepFailed => engines = engines0 /\ backups = backups0 /\ visited = {}
    /\ EnginesStepFailed =>
          /\ visited = DOMAIN backups
          /\ \E volumeName \in todo : volumeName \in reconciled /\ ~volumes[volumeName].Exists
    /\ (pc = "done" /\ err = ErrNil) =>
          /\ visited = DOMAIN backups
          /\ reconciled = GroupKeys
          /\ \A volumeName \in GroupKeys :
                (Cardinality(GroupOf(volumeName)) >= 2 /\ ActiveIn(engines0, volumeName) = {})
                => volumes[volumeName].Exists

\* C17: a run of UpgradeResources on the cache left by a run that returned
\* nil changes no backup, no engine and no volume; it starts with every
\* engine's backupStatus empty and with an active engine in every volume
\* group for which a single match is resolvable.
C17_RerunChangesNothing ==
    /\ [][(run >= 2 /\ lastErr = ErrNil) =>
              /\ backups' = backups
              /\ engines' = engines
              /\ volumes' = volumes]_vars
    /\ []((run >= 2 /\ lastErr = ErrNil) =>
              /\ \A e \in DOMAIN engines : engines[e].BackupStatus = <<>>
              /\ \A volumeName \in GroupKeys :
                    Resolvable(volumeName, volumes[volumeName])
                    => ActiveIn(engines, volumeName) # {})

\* The second run has returned nil after a first run that returned nil: it
\* selected the engine of a backup the first run had written, and the
\* engine the first run made active is the active one.
C17_Witness ==
    /\ CompletedWithoutError
    /\ entry = "UpgradeResources"
    /\ run = 2
    /\ lastErr = ErrNil
    /\ \E b \in DOMAIN selected : backups[b].Status # BlankBackupStatus
    /\ \E volumeName \in GroupKeys :
          /\ Cardinality(GroupOf(volumeName)) >= 2
          /\ Cardinality(ActiveIn(engines, volumeName)) = 1
    /\ engines = engines0
    /\ backups = backups0

\* ======================================================================
\* Properties of package csi/crypto, checked under SpecCrypto
\* ======================================================================

\* The calls of function op made so far.
CallsOf(op) == {i \in DOMAIN calls : calls[i].op = op}

C19_ResizeOnlyWhenOpen ==
    \A i \in CallsOf("ResizeEncryptoDevice") :
        /\ calls[i].invoked = "luksResize" =>
              /\ calls[i].before = "luks"
              /\ calls[i].isOpen
              /\ calls[i].statusErr = ""
        /\ (calls[i].statusErr # "" \/ ~calls[i].isOpen) =>
              /\ calls[i].err # ""
              /\ calls[i].invoked = ""
        /\ calls[i].before # "luks" => calls[i].err # "" /\ calls[i].invoked = ""
        /\ calls[i].invoked \in {"", "luksResize"}
        /\ calls[i].after = calls[i].before

\* CloseVolume closed an open volume and the resize that followed was
\* refused, the status check reporting the volume as not open; a resize of
\* another volume was refused with the error of the status check.
C19_Witness ==
    \E i, j, k \in DOMAIN calls :
        /\ i < j
        /\ calls[i].volume = calls[j].volume
        /\ calls[i].op = "CloseVolume"
        /\ calls[i].before = "luks"
        /\ calls[i].after = "inactive"
        /\ calls[j].op = "ResizeEncryptoDevice"
        /\ ~calls[j].isOpen
        /\ calls[j].statusErr = ""
        /\ calls[j].invoked = ""
        /\ calls[j].err # ""
        /\ calls[k].op = "ResizeEncryptoDevice"
        /\ calls[k].statusErr # ""
        /\ calls[k].invoked = ""
        /\ calls[k].err = calls[k].statusErr

====
